---- MODULE Spec2Model ----
(***************************************************************************)
(* Wake-T, quasistatic r-z plasma wakefield solver                         *)
(* (wake_t/physics_models/plasma_wakefields/qs_rz_baxevanis_ion/solver.py).*)
(*                                                                         *)
(* Grids are functions  row -> (column -> value)  indexed from 0 as the    *)
(* numpy arrays are: an (n_xi+4) x (n_r+4) array has rows 0..n_xi+3 and    *)
(* columns 0..n_r+3, and the slice [2:-2, 2:-2] is rows 2..n_xi+1,         *)
(* columns 2..n_r+1.                                                       *)
(*                                                                         *)
(* Floating point values are modelled by exact integers in fixed units:    *)
(*   - lengths: in a unit in which the skin depth of the unit density is 2 *)
(*     and that of four times that density is 1; the lengths handed in are *)
(*     multiples that the divisions of the code divide exactly;            *)
(*   - b_t_beam, b_t_bar: in units of 1 / FieldScale(n_r), the factor that *)
(*     makes the division by the cell-centre radius exact;                 *)
(*   - gradients: in units of 1 / (2 h), h the grid spacing.               *)
(***************************************************************************)
EXTENDS Integers, Sequences, FiniteSets, TLC

\* ------------------------------------------------------------------ bounds
MaxNxi == 3
MaxNr == 3
MaxBunches == 2
MaxT == 2
MaxWakefields == 2
MaxParticles == 2
MaxTimesteps == 3

\* Values the inputs are drawn from.
PShapes == {"linear", "cubic", "quadratic"}
BunchCharges == {-1, 0, 2}
A2Values == {4}
PpcValues == {1, 2}
MaxGammaValues == {2, 10}
PriorValues == {0, 7}

VARIABLES
    \* arguments of calculate_wakefields
    laser_a2, bunches, r_max, n_r, n_xi, ppc, n_p, p_shape, max_gamma,
    xi_min, xi_max, r_max_plasma,
    \* fld_arrays (of xi_fld and r_fld the first node)
    rho, chi, E_r, E_z, B_t, xi_fld, r_fld,
    \* locals of calculate_wakefields; norm holds the lengths as lines 75-91
    \* rebind them
    dr, norm, a2, nabla_a2, psi, W_r, b_t_bar, b_t_beam,
    \* locals of calculate_plasma_response
    pp, step,
    \* position in the code, index of the next bunch, raised exception
    pc, bi, error,
    \* history: calls made so far, divisors used by calculate_beam_source,
    \* whether a non-finite float (a division by zero) was produced,
    \* b_t as it was handed to the first calculate_beam_source call
    \* the particles as the last evolve left them, and its slice
    calls, divisors, nonfinite, b_t_0, evolved,
    \* the calls of calculate_wakefields made so far: the number of the
    \* running one, and what the earlier ones were given and wrote
    invocation, results,
    \* a PlasmaStage under construction (plasma_stage.py)
    stage,
    \* a wakefield object of wakefields.py (a Quasistatic2DWakefield, a
    \* CombinedWakefield or a WakefieldFromPICSimulation) and the calls made
    \* to it
    wakefield

vars == <<laser_a2, bunches, r_max, n_r, n_xi, ppc, n_p, p_shape, max_gamma,
          xi_min, xi_max, r_max_plasma,
          rho, chi, E_r, E_z, B_t, xi_fld, r_fld,
          dr, norm, a2, nabla_a2, psi, W_r, b_t_bar, b_t_beam,
          pp, step, pc, bi, error, calls, divisors, nonfinite, b_t_0,
          evolved, invocation, results, stage, wakefield>>

\* ------------------------------------------------------------------ grids
Rows(nxi) == 0..(nxi + 3)
Cols(nr) == 0..(nr + 3)
InnerRows(nxi) == 2..(nxi + 1)
InnerCols(nr) == 2..(nr + 1)

\* an array that is not cleared
Uncleared(nxi, nr) == [i \in Rows(nxi) |-> [j \in Cols(nr) |-> 1]]

\* np.zeros((nxi+4, nr+4))
Zeros(nxi, nr) == [i \in Rows(nxi) |-> [j \in Cols(nr) |-> 0]]

\* an array filled with the value v
Filled(nxi, nr, v) == [i \in Rows(nxi) |-> [j \in Cols(nr) |-> v]]

RECURSIVE SumTo(_, _)
\* f[0] + ... + f[k]
SumTo(f, k) == IF k < 0 THEN 0 ELSE f[k] + SumTo(f, k - 1)

RECURSIVE OddProduct(_)
\* 1 * 3 * ... * (2 n - 1)
OddProduct(n) == IF n <= 0 THEN 1 ELSE (2 * n - 1) * OddProduct(n - 1)

\* b_t values are stored multiplied by this factor
FieldScale(nr) == 2 * OddProduct(nr)

\* ------------------------------------------------------ beam source (4.2)
\* A bunch is one macro-particle: its longitudinal cell xi, its radial cell
\* r (from x, y) and its charge q.
Bunches(nxi, nr) == [xi : 0..(nxi - 1), r : 0..(nr - 1), q : BunchCharges]

\* w = q / e / (2 pi dr dxi s_d^3 n_p): with n_xi = 1 the step
\* dxi = (xi_max - xi_min) / (n_xi - 1) is infinite and every weight is 0.
Weight(bunch, nxi) == IF nxi = 1 THEN 0 ELSE bunch.q

\* deposit_3d_distribution: the charge of the particle lands on the cells its
\* shape covers, guard cells included; column c of the array is radial cell
\* c - 2.  'linear' covers the particle's cell and the next one, 'cubic' the
\* cell and both neighbours.
ShapeWeight(shape, d) ==
    IF shape = "linear" THEN (IF d \in {0, 1} THEN 1 ELSE 0)
    ELSE IF d = 0 THEN 2 ELSE IF d \in {-1, 1} THEN 1 ELSE 0

deposit_3d_distribution(bunch, w, nxi, nr, shape, q_dist) ==
    [i \in Rows(nxi) |-> [j \in Cols(nr) |->
        q_dist[i][j] +
            (IF i = bunch.xi + 2
             THEN w * ShapeWeight(shape, (j - 2) - bunch.r) ELSE 0)]]

ShapeSupported(shape) == shape \in {"linear", "cubic"}

\* q_dist[2:-2, 2:-2] of a fresh deposit: row i, radial cell j, from 0
QDist(bunch, nxi, nr, shape) ==
    LET full == deposit_3d_distribution(bunch, Weight(bunch, nxi), nxi, nr,
                                        shape, Zeros(nxi, nr))
    IN  [i \in 0..(nxi - 1) |-> [j \in 0..(nr - 1) |-> full[i + 2][j + 2]]]

\* 2 * r_grid_g[j] = 2 * (0.5 + j) * dr
RGridG2(j, d_r) == (1 + 2 * j) * d_r

\* the first cell treated as the others
Subs4NoAxisTerm(q_dist, i, j) == 2 * q_dist[i][j]

\* 4 * subs[i][j]: half the charge of the cell, and a further quarter of it
\* in the first cell
Subs4(q_dist, i, j) ==
    2 * q_dist[i][j] + (IF j = 0 THEN q_dist[i][0] ELSE 0)

\* np.cumsum(q_dist, axis=1)[i][j]
CumSum(q_dist, i, j) == SumTo(q_dist[i], j)

\* (np.cumsum(q_dist, axis=1) - subs) * dr / np.abs(r_grid_g), in units of
\* 1 / FieldScale(nr); a zero divisor gives a non-finite float, kept as 0
\* here and recorded in nonfinite by the caller.
BeamField(q_dist, i, j, nr, d_r) ==
    LET num == (4 * CumSum(q_dist, i, j) - Subs4(q_dist, i, j)) * d_r
                   * FieldScale(nr)
        den == 2 * RGridG2(j, d_r)
        absden == IF den < 0 THEN -den ELSE den
    IN  IF absden = 0 THEN 0 ELSE num \div absden

\* b_t[2:-2, 2:-2] = field: the grid overwritten
calculate_beam_source_overwrite(bunch, nr, nxi, d_r, shape, b_t) ==
    LET q_dist == QDist(bunch, nxi, nr, shape)
    IN  [i \in Rows(nxi) |-> [j \in Cols(nr) |->
            IF i \in InnerRows(nxi) /\ j \in InnerCols(nr)
            THEN BeamField(q_dist, i - 2, j - 2, nr, d_r)
            ELSE b_t[i][j]]]

\* calculate_beam_source: b_t[2:-2, 2:-2] += field
calculate_beam_source(bunch, nr, nxi, d_r, shape, b_t) ==
    LET q_dist == QDist(bunch, nxi, nr, shape)
    IN  [i \in Rows(nxi) |-> [j \in Cols(nr) |->
            IF i \in InnerRows(nxi) /\ j \in InnerCols(nr)
            THEN b_t[i][j] + BeamField(q_dist, i - 2, j - 2, nr, d_r)
            ELSE b_t[i][j]]]

\* the radii calculate_beam_source divides by (twice them)
BeamDivisors(nr, d_r) == {RGridG2(j, d_r) : j \in 0..(nr - 1)}

\* --------------------------------------------- plasma particles (4.3)
\* Positions are in units of dr / (2 ppc): radial cell c covers
\* 2 ppc c .. 2 ppc (c + 1).  The equations of motion are kept in a reduced
\* integer form: the sources push, the net enclosed charge pulls back.
NPart(pc_, nr) == pc_ * nr

\* PlasmaParticles(...) followed by initialize(): ppc * n_r electrons placed
\* uniformly in radius, at rest, the weight of each its radial shell.
InitialParticles(pc_, nr) ==
    [k \in 1..NPart(pc_, nr) |->
        [id |-> k, r |-> 2 * k - 1, pr |-> 0, pz |-> 0, gamma |-> 1,
         q |-> 2 * k - 1, at_rest |-> FALSE,
         a2 |-> 0, nabla_a2 |-> 0, b_t |-> 0, dpr |-> 0,
         r_in |-> 0, r_out |-> 0]]

RECURSIVE InsertDistinct(_, _)
\* a particle at the radius of another one is dropped
InsertDistinct(s, p) ==
    IF s = <<>> THEN <<p>>
    ELSE IF s[Len(s)].r = p.r THEN s
    ELSE IF s[Len(s)].r < p.r THEN Append(s, p)
    ELSE Append(InsertDistinct(SubSeq(s, 1, Len(s) - 1), p), s[Len(s)])

RECURSIVE Insert(_, _)
\* p put into the list s, which is ordered by r, after the particles that
\* are not farther out
Insert(s, p) ==
    IF s = <<>> THEN <<p>>
    ELSE IF s[Len(s)].r <= p.r THEN Append(s, p)
    ELSE Append(Insert(SubSeq(s, 1, Len(s) - 1), p), s[Len(s)])

RECURSIVE SortedPrefix(_, _)
SortedPrefix(s, k) ==
    IF k = 0 THEN <<>> ELSE Insert(SortedPrefix(s, k - 1), s[k])

\* sort(): the particles reordered by radial position
sort(parts) == SortedPrefix(parts, Len(parts))

\* determine_neighboring_points(): the radii of the inner and outer
\* neighbour of each particle of the sorted list
determine_neighboring_points(parts) ==
    [k \in 1..Len(parts) |->
        [parts[k] EXCEPT
            !.r_in = IF k = 1 THEN 0 ELSE parts[k - 1].r,
            !.r_out = IF k = Len(parts) THEN parts[k].r ELSE parts[k + 1].r]]

\* the radial cell of a position
CellOf(r, pc_) == r \div (2 * pc_)

\* gather_sources(a2_row, nabla_a2_row, b_t_row, ...): each source at the
\* particle's cell of the given grid rows (guard cells included in the
\* rows), zero outside the box
GatherAt(row, r, pc_, nr) ==
    IF CellOf(r, pc_) < nr THEN row[CellOf(r, pc_) + 2] ELSE 0

gather_sources(parts, a2_row, nabla_a2_row, b_t_row, pc_, nr) ==
    [k \in 1..Len(parts) |->
        [parts[k] EXCEPT
            !.a2 = GatherAt(a2_row, parts[k].r, pc_, nr),
            !.nabla_a2 = GatherAt(nabla_a2_row, parts[k].r, pc_, nr),
            !.b_t = GatherAt(b_t_row, parts[k].r, pc_, nr)]]

\* electrons inside radius r, less the ion charge inside it
EnclosedNet(parts, r) ==
    Cardinality({k \in 1..Len(parts) : parts[k].r < r}) - (r \div 2)

\* the Lorentz factor of a particle from its momentum and the laser
Gamma(p) == 1 + p.pr * p.pr + p.a2

\* the momentum reset, the particle not marked
check_gamma_unmarked(p, mg) ==
    IF Gamma(p) > mg
    THEN [p EXCEPT !.gamma = 1, !.pr = 0, !.pz = 0, !.dpr = 0]
    ELSE p

\* the validity guard: beyond max_gamma the particle is put at rest
check_gamma(p, mg) ==
    IF Gamma(p) > mg
    THEN [p EXCEPT !.gamma = 1, !.pr = 0, !.pz = 0, !.dpr = 0,
                   !.at_rest = TRUE]
    ELSE p

\* calculate_fields(): gamma, p_z and the radial force of every particle; a
\* particle at rest stays as it is
calculate_fields(parts, mg, nr) ==
    [k \in 1..Len(parts) |->
        IF parts[k].at_rest THEN parts[k]
        ELSE check_gamma(
                [parts[k] EXCEPT
                    !.gamma = Gamma(parts[k]),
                    !.pz = Gamma(parts[k]) - 1,
                    !.dpr = EnclosedNet(parts, parts[k].r)
                            - parts[k].nabla_a2
                            - (parts[k].b_t \div FieldScale(nr))],
                mg)]

RECURSIVE SumPr(_, _, _)
\* the radial momentum of the first k particles that lie inside radius r
SumPr(parts, k, r) ==
    IF k = 0 THEN 0
    ELSE SumPr(parts, k - 1, r)
         + (IF parts[k].r < r THEN parts[k].pr ELSE 0)

\* calculate_psi_at_grid(r_fld, log_r_fld, psi_row): the value written at
\* radial cell j of the row
PsiAtGrid(parts, j, pc_) == EnclosedNet(parts, 2 * pc_ * (j + 1))

\* calculate_b_theta_at_grid(r_fld, b_t_bar_row): likewise
BThetaAtGrid(parts, j, pc_) == SumPr(parts, Len(parts), 2 * pc_ * (j + 1))

RECURSIVE DepositSum(_, _, _, _, _)
\* what the first k particles deposit on column c of a row: rho takes the
\* particle, chi the particle over its gamma (here: the particles not at
\* rest)
DepositSum(parts, k, c, pc_, chi_) ==
    IF k = 0 THEN 0
    ELSE DepositSum(parts, k - 1, c, pc_, chi_)
         + (IF CellOf(parts[k].r, pc_) + 2 = c
            THEN (IF chi_ THEN (IF parts[k].at_rest THEN 0 ELSE 1) ELSE 1)
            ELSE 0)

\* deposit_rho(rho_row, ...), deposit_chi(chi_row, ...): the row with the
\* particles' deposit added, guard cells included
deposit_row(row, parts, pc_, chi_) ==
    [c \in DOMAIN row |->
        row[c] - DepositSum(parts, Len(parts), c, pc_, chi_)]

\* evolve(dxi): every particle not at rest advanced by one step; a particle
\* crossing the axis comes back on the other side
evolve_particle(p) ==
    IF p.at_rest THEN p
    ELSE IF p.r + p.pr < 0
         THEN [p EXCEPT !.r = -(p.r + p.pr), !.pr = -(p.pr + p.dpr)]
         ELSE [p EXCEPT !.r = p.r + p.pr, !.pr = p.pr + p.dpr]

evolve(parts) == [k \in 1..Len(parts) |-> evolve_particle(parts[k])]

\* ------------------------------------------------ calculate_wakefields
\* radial_gradient(laser_a2, dr), times 2 dr: the centred difference of a
\* row that is mirrored at the axis
RadialGradient2(f, j, nr) ==
    IF nr = 1 THEN 0
    ELSE IF j = 0 THEN f[1] - f[0]
    ELSE IF j = nr - 1 THEN 2 * (f[j] - f[j - 1])
    ELSE f[j + 1] - f[j - 1]

radial_gradient(fld, nxi, nr) ==
    [i \in 0..(nxi - 1) |-> [j \in 0..(nr - 1) |->
        RadialGradient2(fld[i], j, nr)]]

\* np.gradient(f, h, edge_order=2) along one axis of n >= 3 points, times
\* 2 h, at point k; f is indexed from 0
Gradient2(f, k, n) ==
    IF k = 0 THEN 4 * f[1] - 3 * f[0] - f[2]
    ELSE IF k = n - 1 THEN 3 * f[n - 1] - 4 * f[n - 2] + f[n - 3]
    ELSE f[k + 1] - f[k - 1]

\* np.gradient raises ValueError on an axis shorter than edge_order + 1
GradientDefined(nxi, nr) == nxi >= 3 /\ nr >= 3

\* the whole grid assigned: zero around inner
WithInteriorCleared(grid, nxi, nr, inner) ==
    [i \in Rows(nxi) |-> [j \in Cols(nr) |->
        IF i \in InnerRows(nxi) /\ j \in InnerCols(nr)
        THEN inner[i - 2][j - 2] ELSE 0]]

\* a grid with its [2:-2, 2:-2] part replaced by inner, an n_xi x n_r array
WithInterior(grid, nxi, nr, inner) ==
    [i \in Rows(nxi) |-> [j \in Cols(nr) |->
        IF i \in InnerRows(nxi) /\ j \in InnerCols(nr)
        THEN inner[i - 2][j - 2] ELSE grid[i][j]]]

\* grid[2:-2, 2:-2]
Interior(grid, nxi, nr) ==
    [i \in 0..(nxi - 1) |-> [j \in 0..(nr - 1) |-> grid[i + 2][j + 2]]]

\* the slices taken in increasing order
SliceIAscending(nxi, st) == st

\* the slices numbered from 1
SliceIOneBased(nxi, st) == nxi - st

\* slice_i = n_xi - step - 1
SliceI(nxi, st) == nxi - st - 1

\* evolve on the last slice too
EvolveGuardEverySlice(slice_i) == slice_i >= 0

\* if slice_i > 0: pp.evolve(dxi)
EvolveGuard(slice_i) == slice_i > 0

\* the sources gathered before the particles are sorted and paired
SliceOrderGatherFirst ==
    <<"gather_sources", "sort", "determine_neighboring_points",
      "calculate_fields", "grid", "deposit", "evolve">>

\* the statements of the loop body, in the order of the code
SliceOrder ==
    <<"sort", "determine_neighboring_points", "gather_sources",
      "calculate_fields", "grid", "deposit", "evolve">>

RECURSIVE IndexOf(_, _, _)
IndexOf(s, x, k) ==
    IF k > Len(s) THEN 0 ELSE IF s[k] = x THEN k ELSE IndexOf(s, x, k + 1)

\* the statement that follows statement op of the loop body
After(op) == SliceOrder[IndexOf(SliceOrder, op, 1) + 1]

\* ge.plasma_skin_depth: proportional to 1 / sqrt(n_p); 2 for the unit
\* density, 1 for four times it (only used for a positive density)
plasma_skin_depth(np) == IF np >= 4 THEN 1 ELSE 2

\* the skin depth twice in the divisor
NormaliseTwice(x, np) ==
    IF np > 0 THEN (x \div plasma_skin_depth(np)) \div plasma_skin_depth(np)
    ELSE 0

\* x / s_d: the skin depth of a density that is not positive is not finite
\* and the quotient is kept as 0
Normalise(x, np) == IF np > 0 THEN x \div plasma_skin_depth(np) ELSE 0

\* an optional argument is the empty tuple when it is None and the tuple of
\* its value otherwise
None == <<>>

\* the lengths before lines 75-91 have run
NoLengths == [r_max |-> 0, xi_min |-> 0, xi_max |-> 0, r_max_plasma |-> 0,
              r_fld |-> 0, xi_fld |-> 0, dxi |-> 0]

\* no PlasmaStage is under construction
NoStage == [pc |-> "none"]

\* no wakefield object exists
NoWakefield == [pc |-> "none"]

NoParticles ==
    [particles |-> <<>>, state |-> "Uninitialized", ions_computed |-> FALSE]

\* the laser intensity grids: no laser, or one lit cell
LaserGrids(nxi, nr) ==
    {[i \in 0..(nxi - 1) |-> [j \in 0..(nr - 1) |-> 0]]}
    \cup {[i \in 0..(nxi - 1) |-> [j \in 0..(nr - 1) |->
               IF i = i0 /\ j = j0 THEN a ELSE 0]] :
          i0 \in 0..(nxi - 1), j0 \in 0..(nr - 1), a \in A2Values}

\* the sources of one solve: a laser and no bunch, or no laser and one bunch
SweepSources(nxi, nr) ==
    {[laser |-> l, bunches |-> <<>>] : l \in LaserGrids(nxi, nr)}
    \cup {[laser |-> [i \in 0..(nxi - 1) |-> [j \in 0..(nr - 1) |-> 0]],
           bunches |-> <<b>>] : b \in Bunches(nxi, nr)}

\* the state at the call of calculate_wakefields, the density and the box
\* radius drawn from the given sets
CallState(densities, radii) ==
    \E nxi \in 1..MaxNxi, nr \in 1..MaxNr, prior \in PriorValues :
    \E src \in SweepSources(nxi, nr) :
        /\ n_xi = nxi
        /\ n_r = nr
        /\ laser_a2 = src.laser
        /\ bunches = src.bunches
        /\ r_max \in {k * nr * plasma_skin_depth(1) : k \in radii}
        /\ xi_min = 0
        /\ xi_max = (nxi - 1) * plasma_skin_depth(1)
        /\ r_max_plasma = None
        /\ xi_fld = 0
        /\ r_fld \in {k * plasma_skin_depth(1) : k \in radii}
        /\ n_p \in densities
        /\ ppc \in PpcValues
        /\ p_shape \in PShapes
        /\ max_gamma \in MaxGammaValues
        /\ rho = Filled(nxi, nr, prior)
        /\ chi = Filled(nxi, nr, prior)
        /\ E_r = Filled(nxi, nr, prior)
        /\ E_z = Filled(nxi, nr, prior)
        /\ B_t = Filled(nxi, nr, prior)
        /\ dr = 0
        /\ norm = NoLengths
        /\ invocation = 1
        /\ results = <<>>
        /\ stage = NoStage
        /\ wakefield = NoWakefield
        /\ a2 = <<>>
        /\ nabla_a2 = <<>>
        /\ psi = <<>>
        /\ W_r = <<>>
        /\ b_t_bar = <<>>
        /\ b_t_beam = <<>>
        /\ b_t_0 = <<>>
        /\ pp = NoParticles
        /\ step = 0
        /\ pc = "start"
        /\ bi = 1
        /\ error = "none"
        /\ calls = <<>>
        /\ divisors = {}
        /\ nonfinite = FALSE
        /\ evolved = [slice |-> -1, particles |-> <<>>]

\* a solve of a plasma of positive density in a box of positive radius
Init == CallState({1}, {1})

\* a solve with any density and radius the function is called with
InitAny == CallState({0, 1}, {0, 1})

inputs == <<laser_a2, bunches, r_max, n_r, n_xi, ppc, n_p, p_shape, max_gamma,
            xi_min, xi_max, r_max_plasma, xi_fld, r_fld>>

\* what no statement of calculate_wakefields touches
outside == <<invocation, results, stage, wakefield>>

\* lines 75-91: each length divided by the skin depth.  With n_xi = 1 the
\* step dxi = (xi_max - xi_min) / (n_xi - 1) is not finite and is kept as 0.
NormalisedLengths ==
    LET r_max_n == Normalise(r_max, n_p)
        xi_min_n == Normalise(xi_min, n_p)
        xi_max_n == Normalise(xi_max, n_p)
    IN  [r_max |-> r_max_n,
         xi_min |-> xi_min_n,
         xi_max |-> xi_max_n,
         r_max_plasma |-> IF r_max_plasma = None THEN r_max_n
                          ELSE Normalise(r_max_plasma[1], n_p),
         r_fld |-> Normalise(r_fld, n_p),
         xi_fld |-> Normalise(xi_fld, n_p),
         dxi |-> IF n_xi = 1 THEN 0
                 ELSE (xi_max_n - xi_min_n) \div (n_xi - 1)]

\* lines 73-107: the lengths normalised by the skin depth, the grids
\* allocated, the laser source written.
Setup ==
    /\ pc = "start"
    /\ norm' = NormalisedLengths
    /\ dr' = NormalisedLengths.r_max \div n_r
    /\ nonfinite' = (n_p <= 0 \/ n_xi = 1)
    /\ a2' = WithInterior(Zeros(n_xi, n_r), n_xi, n_r, laser_a2)
    /\ nabla_a2' = WithInterior(Zeros(n_xi, n_r), n_xi, n_r,
                                radial_gradient(laser_a2, n_xi, n_r))
    /\ psi' = Zeros(n_xi, n_r)
    /\ W_r' = Zeros(n_xi, n_r)
    /\ b_t_bar' = Zeros(n_xi, n_r)
    /\ b_t_beam' = Zeros(n_xi, n_r)
    /\ b_t_0' = Zeros(n_xi, n_r)
    /\ bi' = 1
    /\ pc' = "beam"
    /\ UNCHANGED <<inputs, outside, rho, chi, E_r, E_z, B_t, pp, step, error,
                   calls,
                   divisors, evolved>>

\* lines 108-110, one turn of the loop: calculate_beam_source for the next
\* bunch; deposit_3d_distribution rejects a shape it does not know
BeamSource ==
    /\ pc = "beam"
    /\ bi <= Len(bunches)
    /\ IF ShapeSupported(p_shape)
       THEN /\ b_t_beam' = calculate_beam_source(bunches[bi], n_r, n_xi, dr,
                                                 p_shape, b_t_beam)
            /\ divisors' = divisors \cup BeamDivisors(n_r, dr)
            /\ nonfinite' = (nonfinite \/ 0 \in BeamDivisors(n_r, dr))
            /\ bi' = bi + 1
            /\ UNCHANGED <<pc, error>>
       ELSE /\ pc' = "raised"
            /\ error' = "ValueError: particle shape"
            /\ UNCHANGED <<b_t_beam, divisors, nonfinite, bi>>
    /\ UNCHANGED <<inputs, outside, rho, chi, E_r, E_z, B_t, dr, norm, a2,
                   nabla_a2, psi,
                   W_r, b_t_bar, pp, step, calls, b_t_0, evolved>>

\* the loop over the bunches is over: calculate_plasma_response is called
BeamDone ==
    /\ pc = "beam"
    /\ bi > Len(bunches)
    /\ pc' = "initialize"
    /\ UNCHANGED <<inputs, outside, rho, chi, E_r, E_z, B_t, dr, norm, a2,
                   nabla_a2, psi,
                   W_r, b_t_bar, b_t_beam, pp, step, bi, error, calls,
                   divisors, nonfinite, b_t_0, evolved>>

\* the particles of the previous solve taken over
InitializeKeepParticles ==
    /\ pc = "initialize"
    /\ IF ShapeSupported(p_shape)
       THEN /\ pp' = IF pp.state = "Uninitialized"
                     THEN [particles |-> InitialParticles(ppc, n_r),
                           state |-> "Initialized", ions_computed |-> FALSE,
                           r_max |-> norm.r_max,
                           r_max_plasma |-> norm.r_max_plasma]
                     ELSE [pp EXCEPT !.state = "Initialized"]
            /\ calls' = Append(calls, <<"initialize", -1>>)
            /\ step' = 0
            /\ pc' = IF 0 < n_xi THEN SliceOrder[1] ELSE "derived"
            /\ UNCHANGED error
       ELSE /\ pc' = "raised"
            /\ error' = "ValueError: particle shape"
            /\ UNCHANGED <<pp, calls, step>>
    /\ UNCHANGED <<inputs, outside, rho, chi, E_r, E_z, B_t, dr, norm, a2,
                   nabla_a2, psi, W_r, b_t_bar, b_t_beam, bi, divisors,
                   nonfinite, b_t_0, evolved>>

\* lines 137-141: PlasmaParticles(...) and initialize(); the particle system
\* keeps the radii it is constructed with and rejects a shape it does not
\* know
Initialize ==
    /\ pc = "initialize"
    /\ IF ShapeSupported(p_shape)
       THEN /\ pp' = [particles |-> InitialParticles(ppc, n_r),
                      state |-> "Initialized", ions_computed |-> FALSE,
                      r_max |-> norm.r_max,
                      r_max_plasma |-> norm.r_max_plasma]
            /\ calls' = Append(calls, <<"initialize", -1>>)
            /\ step' = 0
            /\ pc' = IF 0 < n_xi THEN SliceOrder[1] ELSE "derived"
            /\ UNCHANGED error
       ELSE /\ pc' = "raised"
            /\ error' = "ValueError: particle shape"
            /\ UNCHANGED <<pp, calls, step>>
    /\ UNCHANGED <<inputs, outside, rho, chi, E_r, E_z, B_t, dr, norm, a2,
                   nabla_a2, psi,
                   W_r, b_t_bar, b_t_beam, bi, divisors, nonfinite, b_t_0,
                   evolved>>

\* what a statement of the loop body leaves unchanged besides the particles
\* and the grids it is handed
SliceFrame ==
    UNCHANGED <<inputs, outside, E_r, E_z, B_t, dr, norm, a2, nabla_a2, W_r,
                b_t_beam, step,
                bi, error, divisors, nonfinite, b_t_0, evolved>>

\* line 148
Sort ==
    /\ pc = "sort"
    /\ pp' = [pp EXCEPT !.particles = sort(pp.particles), !.state = "Sorted"]
    /\ calls' = Append(calls, <<"sort", SliceI(n_xi, step)>>)
    /\ pc' = After("sort")
    /\ SliceFrame
    /\ UNCHANGED <<psi, b_t_bar, rho, chi>>

\* line 150
DetermineNeighboringPoints ==
    /\ pc = "determine_neighboring_points"
    /\ pp' = [pp EXCEPT
                !.particles = determine_neighboring_points(pp.particles),
                !.state = "Paired"]
    /\ calls' = Append(calls,
                       <<"determine_neighboring_points", SliceI(n_xi, step)>>)
    /\ pc' = After("determine_neighboring_points")
    /\ SliceFrame
    /\ UNCHANGED <<psi, b_t_bar, rho, chi>>

\* lines 152-155
GatherSources ==
    /\ pc = "gather_sources"
    /\ LET row == SliceI(n_xi, step) + 2
       IN  pp' = [pp EXCEPT
                    !.particles = gather_sources(pp.particles, a2[row],
                                      nabla_a2[row], b_t_beam[row], ppc, n_r),
                    !.state = "Sourced"]
    /\ calls' = Append(calls, <<"gather_sources", SliceI(n_xi, step)>>)
    /\ pc' = After("gather_sources")
    /\ SliceFrame
    /\ UNCHANGED <<psi, b_t_bar, rho, chi>>

\* line 157
CalculateFields ==
    /\ pc = "calculate_fields"
    /\ pp' = [pp EXCEPT
                !.particles = calculate_fields(pp.particles, max_gamma, n_r),
                !.state = "FieldsComputed"]
    /\ calls' = Append(calls, <<"calculate_fields", SliceI(n_xi, step)>>)
    /\ pc' = After("calculate_fields")
    /\ SliceFrame
    /\ UNCHANGED <<psi, b_t_bar, rho, chi>>

\* the row of the slice ahead written as well
GridProjectionTwoRows ==
    /\ pc = "grid"
    /\ LET row == SliceI(n_xi, step) + 2
           psi_row == [j \in Cols(n_r) |->
                        IF j \in InnerCols(n_r)
                        THEN PsiAtGrid(pp.particles, j - 2, ppc)
                        ELSE psi[row][j]]
           b_t_row == [j \in Cols(n_r) |->
                        IF j \in InnerCols(n_r)
                        THEN BThetaAtGrid(pp.particles, j - 2, ppc)
                        ELSE b_t_bar[row][j]]
       IN  /\ psi' = [psi EXCEPT ![row] = psi_row, ![row - 1] = psi_row]
           /\ b_t_bar' = [b_t_bar EXCEPT ![row] = b_t_row,
                                         ![row - 1] = b_t_row]
    /\ calls' = calls \o <<<<"calculate_psi_at_grid", SliceI(n_xi, step)>>,
                           <<"calculate_b_theta_at_grid", SliceI(n_xi, step)>>>>
    /\ pc' = After("grid")
    /\ SliceFrame
    /\ UNCHANGED <<pp, rho, chi>>

\* lines 159-160: psi[slice_i+2, 2:-2] and b_t_bar[slice_i+2, 2:-2] written
GridProjection ==
    /\ pc = "grid"
    /\ LET row == SliceI(n_xi, step) + 2
       IN  /\ psi' = [psi EXCEPT ![row] = [j \in Cols(n_r) |->
                        IF j \in InnerCols(n_r)
                        THEN PsiAtGrid(pp.particles, j - 2, ppc)
                        ELSE psi[row][j]]]
           /\ b_t_bar' = [b_t_bar EXCEPT ![row] = [j \in Cols(n_r) |->
                        IF j \in InnerCols(n_r)
                        THEN BThetaAtGrid(pp.particles, j - 2, ppc)
                        ELSE b_t_bar[row][j]]]
    /\ calls' = calls \o <<<<"calculate_psi_at_grid", SliceI(n_xi, step)>>,
                           <<"calculate_b_theta_at_grid", SliceI(n_xi, step)>>>>
    /\ pc' = After("grid")
    /\ SliceFrame
    /\ UNCHANGED <<pp, rho, chi>>

\* lines 162-165: rho[slice_i+2] and chi[slice_i+2] are handed to the deposits
Deposit ==
    /\ pc = "deposit"
    /\ LET row == SliceI(n_xi, step) + 2
       IN  /\ rho' = [rho EXCEPT ![row] =
                        deposit_row(rho[row], pp.particles, ppc, FALSE)]
           /\ chi' = [chi EXCEPT ![row] =
                        deposit_row(chi[row], pp.particles, ppc, TRUE)]
    /\ pp' = [pp EXCEPT !.state = "Deposited", !.ions_computed = TRUE]
    /\ calls' = calls \o <<<<"deposit_rho", SliceI(n_xi, step)>>,
                           <<"deposit_chi", SliceI(n_xi, step)>>>>
    /\ pc' = After("deposit")
    /\ SliceFrame
    /\ UNCHANGED <<psi, b_t_bar>>

\* the loop counter advanced: the next turn of the loop, or its end
NextTurn(st, nxi) == IF st + 1 < nxi THEN SliceOrder[1] ELSE "derived"

\* lines 167-168, slice_i > 0
Evolve ==
    /\ pc = "evolve"
    /\ EvolveGuard(SliceI(n_xi, step))
    /\ pp' = [pp EXCEPT !.particles = evolve(pp.particles),
                        !.state = "Evolved"]
    /\ evolved' = [slice |-> SliceI(n_xi, step),
                   particles |-> evolve(pp.particles)]
    /\ calls' = Append(calls, <<"evolve", SliceI(n_xi, step)>>)
    /\ step' = step + 1
    /\ pc' = NextTurn(step, n_xi)
    /\ UNCHANGED <<inputs, outside, rho, chi, E_r, E_z, B_t, dr, norm, a2,
                   nabla_a2, psi,
                   W_r, b_t_bar, b_t_beam, bi, error, divisors, nonfinite,
                   b_t_0>>

\* line 167, slice_i = 0: no evolve
SkipEvolve ==
    /\ pc = "evolve"
    /\ ~EvolveGuard(SliceI(n_xi, step))
    /\ step' = step + 1
    /\ pc' = NextTurn(step, n_xi)
    /\ UNCHANGED <<inputs, outside, rho, chi, E_r, E_z, B_t, dr, norm, a2,
                   nabla_a2, psi,
                   W_r, b_t_bar, b_t_beam, pp, bi, error, calls, divisors,
                   nonfinite, b_t_0, evolved>>

\* -dxi_psi and -dr_psi of line 122-124, times 2 dxi and 2 dr (E_0 = 1)
DxiPsi2(psi_in, i, j, nxi) ==
    Gradient2([k \in 0..(nxi - 1) |-> psi_in[k][j]], i, nxi)

DrPsi2(psi_in, i, j, nr) == Gradient2(psi_in[i], j, nr)

\* ct.c, in units in which it is 3
SpeedOfLight == 3

\* ge.plasma_cold_non_relativisct_wave_breaking_field: proportional to
\* sqrt(n_p); 6 for the unit density, 12 for four times it
plasma_cold_non_relativisct_wave_breaking_field(np) ==
    IF np <= 0 THEN 0 ELSE IF np >= 4 THEN 12 ELSE 6

\* the beam contribution left out
TotalBThetaPlasmaOnly(bar, beam, e_0) == (bar * e_0) \div SpeedOfLight

\* line 125, one cell: (b_t_bar + b_t_beam) * E_0 / ct.c
TotalBTheta(bar, beam, e_0) == ((bar + beam) * e_0) \div SpeedOfLight

\* lines 121-126.  B_t is in units of 1 / FieldScale(n_r), W_r in units of
\* 1 / (2 dr), E_r = W_r + c B_t in units of 1 / (2 dr FieldScale(n_r)).
DerivedFields ==
    /\ pc = "derived"
    /\ IF GradientDefined(n_xi, n_r)
       THEN LET E_0 == plasma_cold_non_relativisct_wave_breaking_field(n_p)
                psi_in == Interior(psi, n_xi, n_r)
                e_z == [i \in 0..(n_xi - 1) |-> [j \in 0..(n_r - 1) |->
                           -DxiPsi2(psi_in, i, j, n_xi) * E_0]]
                w_r == [i \in 0..(n_xi - 1) |-> [j \in 0..(n_r - 1) |->
                           -DrPsi2(psi_in, i, j, n_r) * E_0]]
                W == WithInterior(W_r, n_xi, n_r, w_r)
                B == [i \in Rows(n_xi) |-> [j \in Cols(n_r) |->
                           TotalBTheta(b_t_bar[i][j], b_t_beam[i][j], E_0)]]
            IN  /\ E_z' = WithInterior(E_z, n_xi, n_r, e_z)
                /\ W_r' = W
                /\ B_t' = B
                /\ E_r' = [i \in Rows(n_xi) |-> [j \in Cols(n_r) |->
                              W[i][j] * FieldScale(n_r)
                              + B[i][j] * SpeedOfLight * 2 * dr]]
                /\ pc' = "done"
                /\ UNCHANGED error
       ELSE /\ pc' = "raised"
            /\ error' = "ValueError: gradient"
            /\ UNCHANGED <<E_z, W_r, B_t, E_r>>
    /\ UNCHANGED <<inputs, outside, rho, chi, dr, norm, a2, nabla_a2, psi,
                   b_t_bar,
                   b_t_beam, pp, step, bi, calls, divisors, nonfinite, b_t_0,
                   evolved>>

calculate_plasma_response ==
    \/ Initialize
    \/ Sort
    \/ DetermineNeighboringPoints
    \/ GatherSources
    \/ CalculateFields
    \/ GridProjection
    \/ Deposit
    \/ Evolve
    \/ SkipEvolve

Next ==
    \/ Setup
    \/ BeamSource
    \/ BeamDone
    \/ calculate_plasma_response
    \/ DerivedFields

Spec == Init /\ [][Next]_vars

SpecAny == InitAny /\ [][Next]_vars

\* ------------------------------------- calculate_beam_source on its own
RECURSIVE SeqsUpTo(_, _)
\* the lists of at most n elements of S
SeqsUpTo(S, n) ==
    IF n = 0 THEN {<<>>}
    ELSE SeqsUpTo(S, n - 1)
         \cup {Append(s, x) : s \in {t \in SeqsUpTo(S, n - 1) : Len(t) = n - 1},
                              x \in S}

\* electron bunches in the first slice and positron bunches in the last
BeamBunches(nxi, nr) ==
    {b \in Bunches(nxi, nr) :
        (b.xi = 0 /\ b.q = -1) \/ (b.xi = nxi - 1 /\ b.q = 2)}

\* calculate_beam_source called once per bunch of a list on a shared grid of
\* any previous contents, with the dr of a box of positive radius
InitBeam ==
    \E nxi \in 2..MaxNxi, nr \in 1..MaxNr, prior \in PriorValues :
        /\ n_xi = nxi
        /\ n_r = nr
        /\ laser_a2 = [i \in 0..(nxi - 1) |-> [j \in 0..(nr - 1) |-> 0]]
        /\ bunches \in SeqsUpTo(BeamBunches(nxi, nr), MaxBunches)
        /\ r_max = nr * plasma_skin_depth(1)
        /\ xi_min = 0
        /\ xi_max = (nxi - 1) * plasma_skin_depth(1)
        /\ r_max_plasma = None
        /\ xi_fld = 0
        /\ r_fld = plasma_skin_depth(1)
        /\ n_p = 1
        /\ ppc = 1
        /\ p_shape \in {sh \in PShapes : ShapeSupported(sh)}
        /\ max_gamma = 10
        /\ rho = Zeros(nxi, nr)
        /\ chi = Zeros(nxi, nr)
        /\ E_r = Zeros(nxi, nr)
        /\ E_z = Zeros(nxi, nr)
        /\ B_t = Zeros(nxi, nr)
        /\ dr = 1
        /\ norm = [r_max |-> nr, xi_min |-> 0, xi_max |-> nxi - 1,
                   r_max_plasma |-> nr, r_fld |-> 1, xi_fld |-> 0, dxi |-> 1]
        /\ invocation = 1
        /\ results = <<>>
        /\ stage = NoStage
        /\ wakefield = NoWakefield
        /\ a2 = Zeros(nxi, nr)
        /\ nabla_a2 = Zeros(nxi, nr)
        /\ psi = Zeros(nxi, nr)
        /\ W_r = Zeros(nxi, nr)
        /\ b_t_bar = Zeros(nxi, nr)
        /\ b_t_beam = Filled(nxi, nr, prior)
        /\ b_t_0 = Filled(nxi, nr, prior)
        /\ pp = NoParticles
        /\ step = 0
        /\ pc = "beam"
        /\ bi = 1
        /\ error = "none"
        /\ calls = <<>>
        /\ divisors = {}
        /\ nonfinite = FALSE
        /\ evolved = [slice |-> -1, particles |-> <<>>]

\* the last bunch is done
BeamReturn ==
    /\ pc = "beam"
    /\ bi > Len(bunches)
    /\ pc' = "returned"
    /\ UNCHANGED <<inputs, outside, rho, chi, E_r, E_z, B_t, dr, norm, a2,
                   nabla_a2, psi,
                   W_r, b_t_bar, b_t_beam, pp, step, bi, error, calls,
                   divisors, nonfinite, b_t_0, evolved>>

NextBeam ==
    \/ BeamSource
    \/ BeamReturn

SpecBeam == InitBeam /\ [][NextBeam]_vars

\* ------------------------------------------------ PlasmaStage.__init__
\* The solver at rest: what its variables hold while another object is at
\* work.
SolverIdle ==
    /\ laser_a2 = <<>>
    /\ bunches = <<>>
    /\ r_max = 0
    /\ n_r = 1
    /\ n_xi = 1
    /\ ppc = 1
    /\ n_p = 1
    /\ p_shape = "linear"
    /\ max_gamma = 10
    /\ xi_min = 0
    /\ xi_max = 0
    /\ r_max_plasma = None
    /\ rho = <<>>
    /\ chi = <<>>
    /\ E_r = <<>>
    /\ E_z = <<>>
    /\ B_t = <<>>
    /\ xi_fld = 0
    /\ r_fld = 0
    /\ dr = 0
    /\ norm = NoLengths
    /\ a2 = <<>>
    /\ nabla_a2 = <<>>
    /\ psi = <<>>
    /\ W_r = <<>>
    /\ b_t_bar = <<>>
    /\ b_t_beam = <<>>
    /\ b_t_0 = <<>>
    /\ pp = NoParticles
    /\ step = 0
    /\ pc = "idle"
    /\ bi = 1
    /\ error = "none"
    /\ calls = <<>>
    /\ divisors = {}
    /\ nonfinite = FALSE
    /\ evolved = [slice |-> -1, particles |-> <<>>]
    /\ invocation = 0
    /\ results = <<>>

solver == <<inputs, rho, chi, E_r, E_z, B_t, dr, norm, a2, nabla_a2, psi, W_r,
            b_t_bar, b_t_beam, pp, step, pc, bi, error, calls, divisors,
            nonfinite, b_t_0, evolved, invocation, results>>

\* the values density is given: floats, an int, callables of 0 to 3
\* parameters, a string
Densities ==
    [type : {"float"}, value : {-1, 1}, n_inputs : {0}]
    \cup [type : {"int"}, value : {1}, n_inputs : {0}]
    \cup [type : {"callable"}, value : {1}, n_inputs : 0..3]
    \cup [type : {"str"}, value : {1}, n_inputs : {0}]

\* the keys and classes of the dictionary wakefield_models
wakefield_models ==
    ("simple_blowout" :> "SimpleBlowoutWakefield")
    @@ ("custom_blowout" :> "CustomBlowoutWakefield")
    @@ ("focusing_blowout" :> "FocusingBlowoutField")
    @@ ("cold_fluid_1d" :> "NonLinearColdFluidWakefield")
    @@ ("quasistatic_2d" :> "Quasistatic2DWakefield")
    @@ ("quasistatic_2d_ion" :> "Quasistatic2DWakefieldIon")

\* the possible values of wakefield_model the docstring lists, with the
\* model each one names
DocumentedModels ==
    ("blowout" :> "SimpleBlowoutWakefield")
    @@ ("custom_blowout" :> "CustomBlowoutWakefield")
    @@ ("focusing_blowout" :> "FocusingBlowoutField")
    @@ ("cold_fluid_1d" :> "NonLinearColdFluidWakefield")
    @@ ("quasistatic_2d" :> "Quasistatic2DWakefield")

\* the values wakefield_model is given: None, a Field instance, a string
WakefieldModelArgs ==
    [kind : {"None", "Field"}, name : {""}]
    \cup [kind : {"str"},
          name : DOMAIN wakefield_models \cup DOMAIN DocumentedModels
                 \cup {"unknown"}]

\* PlasmaStage(length, density, wakefield_model) is called
InitStage ==
    /\ SolverIdle
    /\ wakefield = NoWakefield
    /\ \E d \in Densities, m \in WakefieldModelArgs :
          stage = [pc |-> "density", density_arg |-> d, model_arg |-> m,
                   density |-> None, wakefield |-> None, fields |-> <<>>,
                   error |-> "none", models_built |-> 0]

\* _get_density_profile: the profile function returned, or the error raised
get_density_profile(density) ==
    IF density.type = "float" THEN "uniform_density"
    ELSE IF density.type = "callable"
    THEN (IF density.n_inputs = 2 THEN "density"
          ELSE IF density.n_inputs = 1 THEN "density_2d"
          ELSE "ValueError: The density function must take 2 arguments")
    ELSE "ValueError: Type not supported for density"

\* an outcome that is an exception
Raises(outcome) ==
    outcome \in {"ValueError: The density function must take 2 arguments",
                 "ValueError: Type not supported for density",
                 "ValueError: Wakefield model not recognized"}

\* _get_wakefield: None, the Field given, the class built, or the error raised
get_wakefield(model) ==
    IF model.kind = "None" THEN "None"
    ELSE IF model.kind = "Field" THEN "given Field"
    ELSE IF model.name \in DOMAIN wakefield_models
    THEN wakefield_models[model.name]
    ELSE "ValueError: Wakefield model not recognized"

\* line 108: self.density = self._get_density_profile(density)
GetDensityProfile ==
    /\ stage.pc = "density"
    /\ LET outcome == get_density_profile(stage.density_arg)
       IN  stage' = IF Raises(outcome)
                    THEN [stage EXCEPT !.pc = "raised", !.error = outcome]
                    ELSE [stage EXCEPT !.pc = "wakefield",
                                       !.density = <<outcome>>]
    /\ UNCHANGED <<solver, wakefield>>

\* line 109: self.wakefield = self._get_wakefield(wakefield_model, ...)
GetWakefield ==
    /\ stage.pc = "wakefield"
    /\ LET outcome == get_wakefield(stage.model_arg)
       IN  stage' =
             IF Raises(outcome)
             THEN [stage EXCEPT !.pc = "raised", !.error = outcome]
             ELSE [stage EXCEPT
                     !.pc = "fields",
                     !.wakefield = IF outcome = "None" THEN None
                                   ELSE <<outcome>>,
                     !.models_built =
                         IF stage.model_arg.kind = "str" THEN @ + 1 ELSE @]
    /\ UNCHANGED <<solver, wakefield>>

\* lines 110-128: the list of fields handed to FieldElement.__init__
FieldElementInit ==
    /\ stage.pc = "fields"
    /\ stage' = [stage EXCEPT !.pc = "constructed",
                              !.fields = stage.wakefield]
    /\ UNCHANGED <<solver, wakefield>>

NextStage ==
    \/ GetDensityProfile
    \/ GetWakefield
    \/ FieldElementInit

SpecStage == InitStage /\ [][NextStage]_vars

\* ------------------------------- calculate_wakefields called repeatedly
\* what a call that has ended leaves to its caller: the exception or the
\* return, and the parts of the output arrays lines 123-126 assign
Outcome ==
    [args |-> inputs,
     raised |-> IF pc = "raised" THEN error ELSE "none",
     E_z |-> IF pc = "done" THEN Interior(E_z, n_xi, n_r) ELSE <<>>,
     E_r |-> IF pc = "done" THEN E_r ELSE <<>>,
     B_t |-> IF pc = "done" THEN B_t ELSE <<>>]

\* the sources of the call made between the two compared: those of the
\* first call again, or a positron bunch on the axis in the first slice
OtherSources ==
    {[laser |-> laser_a2, bunches |-> bunches],
     [laser |-> [i \in 0..(n_xi - 1) |-> [j \in 0..(n_r - 1) |-> 0]],
      bunches |-> <<[xi |-> n_xi - 1, r |-> 0, q |-> 2]>>]}

\* the output arrays handed to the next call: those the last call wrote, or
\* arrays filled with a value
NextArrays ==
    {[rho |-> rho, chi |-> chi, E_r |-> E_r, E_z |-> E_z, B_t |-> B_t]}
    \cup {[rho |-> Filled(n_xi, n_r, v), chi |-> Filled(n_xi, n_r, v),
           E_r |-> Filled(n_xi, n_r, v), E_z |-> Filled(n_xi, n_r, v),
           B_t |-> Filled(n_xi, n_r, v)] : v \in PriorValues \ {E_z[0][0]}}

\* the call has returned or raised and calculate_wakefields is called again:
\* a second time with the sources of OtherSources, a third time with the
\* arguments of the first call.  The locals of the call that ended are
\* garbage; they are left as they are here, so that a statement reading one
\* before the new call has assigned it reads a value of the old call.
Reinvoke ==
    /\ pc \in {"done", "raised"}
    /\ invocation \in {1, 2}
    /\ results' = Append(results, Outcome)
    /\ invocation' = invocation + 1
    /\ \E src \in (IF invocation = 1 THEN OtherSources
                   ELSE {[laser |-> results[1].args[1],
                          bunches |-> results[1].args[2]]}) :
          /\ laser_a2' = src.laser
          /\ bunches' = src.bunches
    /\ \E arrays \in NextArrays :
          /\ rho' = arrays.rho
          /\ chi' = arrays.chi
          /\ E_r' = arrays.E_r
          /\ E_z' = arrays.E_z
          /\ B_t' = arrays.B_t
    /\ pc' = "start"
    /\ error' = "none"
    /\ calls' = <<>>
    /\ divisors' = {}
    /\ evolved' = [slice |-> -1, particles |-> <<>>]
    /\ UNCHANGED <<r_max, n_r, n_xi, ppc, n_p, p_shape, max_gamma, xi_min,
                   xi_max, r_max_plasma, xi_fld, r_fld, dr, norm, a2,
                   nabla_a2, psi, W_r, b_t_bar, b_t_beam, pp, step, bi,
                   nonfinite, b_t_0, stage, wakefield>>

\* the first call: a plasma of two particles per cell, the linear shape
InitTwice ==
    /\ Init
    /\ ppc = 2
    /\ p_shape = "linear"
    /\ max_gamma = 10

NextTwice ==
    \/ Next
    \/ Reinvoke

SpecTwice == InitTwice /\ [][NextTwice]_vars

\* ------------------------------------------- Quasistatic2DWakefield
\* Times are integers, in units in which c = 1 for dz_fields / c.  A field
\* of the object that is None is the empty tuple, a field with a value the
\* tuple of it.  The computed grids are known by the request that computed
\* them (its time and its particles), an interpolation by the grids and the
\* particle coordinates it was made of.
Times == 0..MaxT

\* the bunches whose coordinates (x, y, xi) and charge a request passes
ParticleSets == {"bunch 1", "bunch 2"}

Methods == {"Wx", "Wy", "Wz", "Kx", "Ez_p"}

\* dz_fields: None, or a distance (over c)
DzFields == {None, <<0>>, <<1>>, <<-1>>}

\* lines 468-490: the object as the constructor leaves it
InitWakefield ==
    /\ SolverIdle
    /\ stage = NoStage
    /\ \E dz \in DzFields :
          wakefield = [pc |-> "constructed",
                       dz_fields |-> dz,
                       current_t |-> None,
                       current_t_wf |-> None,
                       current_t_interp |-> None,
                       grids |-> None,
                       parts |-> None,
                       last |-> None]

\* the comparison with current_t_wf left out
NeedsUpdateNoTimeCheck(self, t) ==
    IF self.current_t_wf = None THEN TRUE
    ELSE /\ self.dz_fields # None
         /\ t >= self.current_t_wf[1] + self.dz_fields[1]

\* lines 519-525: the fields are to be computed at this request.  dz_fields
\* = None is stored as np.inf (line 483), which no time reaches.
NeedsUpdate(self, t) ==
    IF self.current_t_wf = None THEN TRUE
    ELSE /\ self.current_t_wf[1] # t
         /\ self.dz_fields # None
         /\ t >= self.current_t_wf[1] + self.dz_fields[1]

\* lines 517-549, __calculate_wakefields: the object after the call
calculate_wakefields_cached(self, particles, t) ==
    IF NeedsUpdate(self, t)
    THEN [self EXCEPT !.current_t = <<t>>,
                      !.current_t_wf = <<t>>,
                      !.grids = <<[t |-> t, source |-> particles]>>]
    ELSE [self EXCEPT !.current_t = <<t>>]

\* gather_main_fields_cyl_linear / gather_field_cyl_linear: the field grids
\* interpolated at the coordinates of the particles
Interpolation(grids, particles) == [grids |-> grids, at |-> particles]

\* lines 551-556, __interpolate_fields_to_particles
interpolate_fields_to_particles(self, particles, t) ==
    IF self.current_t_interp = None \/ self.current_t_interp # <<t>>
    THEN [self EXCEPT !.current_t_interp = <<t>>,
                      !.parts = <<Interpolation(self.grids, particles)>>]
    ELSE self

\* lines 492-515: one request for a field at the particles, at time t
Request(method, particles, t) ==
    /\ wakefield.pc = "constructed"
    /\ LET computed == calculate_wakefields_cached(wakefield, particles, t)
           self == IF method \in {"Wx", "Wy", "Wz"}
                   THEN interpolate_fields_to_particles(computed, particles, t)
                   ELSE computed
           returned == IF method \in {"Wx", "Wy", "Wz"}
                       THEN self.parts[1]
                       ELSE Interpolation(self.grids, particles)
       IN  wakefield' =
             [self EXCEPT !.last = <<[method |-> method,
                                      particles |-> particles,
                                      t |-> t,
                                      computed |-> NeedsUpdate(wakefield, t),
                                      returned |-> returned]>>]
    /\ UNCHANGED <<solver, stage>>

NextWakefield ==
    \E method \in Methods, particles \in ParticleSets, t \in Times :
        Request(method, particles, t)

SpecWakefield == InitWakefield /\ [][NextWakefield]_vars

\* --------------------------- the lengths handed to calculate_wakefields
\* a call with no source, of a plasma of either density, in a box and on an
\* interval of several sizes, with or without a plasma radius
InitLengths ==
    \E nxi \in 2..MaxNxi, nr \in 1..MaxNr, k \in {1, 2}, lo \in {0, 1} :
        /\ n_xi = nxi
        /\ n_r = nr
        /\ laser_a2 = [i \in 0..(nxi - 1) |-> [j \in 0..(nr - 1) |-> 0]]
        /\ bunches = <<>>
        /\ n_p \in {1, 4}
        /\ r_max = k * nr * plasma_skin_depth(1)
        /\ r_max_plasma \in {None} \cup
               {<<m * plasma_skin_depth(1)>> : m \in {1, 2}}
        /\ xi_min = -lo * (nxi - 1) * plasma_skin_depth(1)
        /\ xi_max = (1 - lo) * (nxi - 1) * plasma_skin_depth(1)
        /\ xi_fld = -lo * (nxi - 1) * plasma_skin_depth(1)
        /\ r_fld = k * plasma_skin_depth(1)
        /\ ppc = 1
        /\ p_shape = "cubic"
        /\ max_gamma = 10
        /\ rho = Zeros(nxi, nr)
        /\ chi = Zeros(nxi, nr)
        /\ E_r = Zeros(nxi, nr)
        /\ E_z = Zeros(nxi, nr)
        /\ B_t = Zeros(nxi, nr)
        /\ dr = 0
        /\ norm = NoLengths
        /\ a2 = <<>>
        /\ nabla_a2 = <<>>
        /\ psi = <<>>
        /\ W_r = <<>>
        /\ b_t_bar = <<>>
        /\ b_t_beam = <<>>
        /\ b_t_0 = <<>>
        /\ pp = NoParticles
        /\ step = 0
        /\ pc = "start"
        /\ bi = 1
        /\ error = "none"
        /\ calls = <<>>
        /\ divisors = {}
        /\ nonfinite = FALSE
        /\ evolved = [slice |-> -1, particles |-> <<>>]
        /\ invocation = 1
        /\ results = <<>>
        /\ stage = NoStage
        /\ wakefield = NoWakefield

\* the call up to the construction of the particle system
NextLengths ==
    \/ Setup
    \/ BeamDone
    \/ Initialize

SpecLengths == InitLengths /\ [][NextLengths]_vars

\* ------------------------------------------------- CombinedWakefield
\* Arrays over the particles are sequences.  The wakefields of the list are
\* plasma lenses, PlasmaLensFieldRelativistic(k_x), each known by its k_x.
FocusingStrengths == {-1, 1, 2}

\* the coordinates (x, y) of a particle
Coordinates == {<<-1, 1>>, <<2, 0>>}

CombinedMethods == {"Wx", "Wy", "Wz", "Kx"}

\* lines 646-656: the array a method of PlasmaLensFieldRelativistic returns
PlasmaLensFieldRelativistic(k_x, method, x, y) ==
    [k \in 1..Len(x) |->
        IF method = "Wx" THEN SpeedOfLight * k_x * x[k]
        ELSE IF method = "Wy" THEN SpeedOfLight * k_x * y[k]
        ELSE IF method = "Wz" THEN 0
        ELSE k_x]

\* wx = wf.Wx(...): the sum so far dropped
Overwrite(acc, contribution) ==
    [k \in 1..Len(acc) |-> contribution[k]]

\* lines 667, 673, 679, 685: wx += wf.Wx(...)
Accumulate(acc, contribution) ==
    [k \in 1..Len(acc) |-> acc[k] + contribution[k]]

RECURSIVE CombinedLoop(_, _, _, _, _, _)
\* lines 664-686, the loop from the i-th wakefield of the list on
CombinedLoop(acc, wakefield_list, i, method, x, y) ==
    IF i > Len(wakefield_list) THEN acc
    ELSE CombinedLoop(
             Accumulate(acc, PlasmaLensFieldRelativistic(wakefield_list[i],
                                                         method, x, y)),
             wakefield_list, i + 1, method, x, y)

\* lines 660-662: a CombinedWakefield of a list of wakefields
InitCombined ==
    /\ SolverIdle
    /\ stage = NoStage
    /\ \E list \in SeqsUpTo(FocusingStrengths, MaxWakefields) :
          wakefield = [pc |-> "constructed",
                       wakefield_list |-> list,
                       method |-> "none",
                       x |-> <<>>,
                       y |-> <<>>,
                       acc |-> <<>>,
                       i |-> 1,
                       queries |-> <<>>,
                       returned |-> <<>>]

\* lines 665, 671, 677, 683: a method is called with the coordinates of some
\* particles, and the sum starts as np.zeros(x.shape[0])
CombinedCall(method, particles) ==
    /\ wakefield.pc \in {"constructed", "returned"}
    /\ wakefield' = [wakefield EXCEPT
          !.pc = "loop",
          !.method = method,
          !.x = [k \in 1..Len(particles) |-> particles[k][1]],
          !.y = [k \in 1..Len(particles) |-> particles[k][2]],
          !.acc = [k \in 1..Len(particles) |-> 0],
          !.i = 1,
          !.queries = <<>>,
          !.returned = <<>>]
    /\ UNCHANGED <<solver, stage>>

\* one turn of the loop: the next wakefield of the list queried and added
CombinedAdd ==
    /\ wakefield.pc = "loop"
    /\ wakefield.i <= Len(wakefield.wakefield_list)
    /\ wakefield' = [wakefield EXCEPT
          !.acc = Accumulate(wakefield.acc,
                      PlasmaLensFieldRelativistic(
                          wakefield.wakefield_list[wakefield.i],
                          wakefield.method, wakefield.x, wakefield.y)),
          !.queries = Append(wakefield.queries,
                             [wf |-> wakefield.i,
                              method |-> wakefield.method,
                              x |-> wakefield.x,
                              y |-> wakefield.y]),
          !.i = wakefield.i + 1]
    /\ UNCHANGED <<solver, stage>>

\* lines 668, 674, 680, 686: the sum returned
CombinedReturn ==
    /\ wakefield.pc = "loop"
    /\ wakefield.i > Len(wakefield.wakefield_list)
    /\ wakefield' = [wakefield EXCEPT !.pc = "returned",
                                      !.returned = wakefield.acc]
    /\ UNCHANGED <<solver, stage>>

NextCombined ==
    \/ \E method \in CombinedMethods,
          particles \in SeqsUpTo(Coordinates, MaxParticles) :
              CombinedCall(method, particles)
    \/ CombinedAdd
    \/ CombinedReturn

SpecCombined == InitCombined /\ [][NextCombined]_vars

\* ---------------------------------------- WakefieldFromPICSimulation
\* The simulation data (self.dc) is known by its time steps: n of them,
\* numbered 10, 20, ..., written out at the times 2, 4, ... (indices count
\* from 1 here, from 0 in the code).
SimulationTimeSteps(n) == [i \in 1..n |-> 10 * i]

\* line 246: E_z_field.GetTimeInUnits("s", ts)
GetTimeInUnits(ts) == ts \div 5

\* the times check_if_update_fields is called with
PICTimes == 0..(2 * MaxTimesteps + 1)

\* lines 168-169, 179-180, 248-249: np.where(timesteps == ts)[0][0]
TsIndex(timesteps, ts) ==
    CHOOSE i \in 1..Len(timesteps) :
        /\ timesteps[i] = ts
        /\ \A j \in 1..(i - 1) : timesteps[j] # ts

\* timesteps_in_sec[::-1]
Reversed(s) == [i \in 1..Len(s) |-> s[Len(s) + 1 - i]]

\* lines 188-253: the fields of self.current_ts loaded; the first time, the
\* list of time steps and their times read from the simulation, and in
\* reverse tracking cut after the current one, the times then reversed
create_fields(self) ==
    LET loaded == [self EXCEPT !.fields = self.current_ts,
                               !.created = TRUE]
        all == self.dc
        secs == [i \in 1..Len(all) |-> GetTimeInUnits(all[i])]
        current_ts_index == TsIndex(all, self.current_ts)
    IN  IF Len(self.timesteps) # 0 THEN loaded
        ELSE IF ~self.reverse_tracking
             THEN [loaded EXCEPT !.timesteps = all,
                                 !.timesteps_in_sec = secs]
             ELSE [loaded EXCEPT
                      !.timesteps = SubSeq(all, 1, current_ts_index),
                      !.timesteps_in_sec =
                          Reversed(SubSeq(secs, 1, current_ts_index))]

\* lines 128-160: __init__ and _load_fields, for a time step of the simulation
InitPIC ==
    /\ SolverIdle
    /\ stage = NoStage
    /\ \E n \in 1..MaxTimesteps, reverse_tracking \in BOOLEAN :
       \E timestep \in {SimulationTimeSteps(n)[i] : i \in 1..n} :
          wakefield = create_fields([pc |-> "pic",
                                     dc |-> SimulationTimeSteps(n),
                                     reverse_tracking |-> reverse_tracking,
                                     current_ts |-> timestep,
                                     timesteps |-> <<>>,
                                     timesteps_in_sec |-> <<>>,
                                     fields |-> None,
                                     created |-> FALSE,
                                     time |-> None])

\* line 164: np.where(self.timesteps_in_sec < time)[0]
PossibleTs(timesteps_in_sec, time) ==
    LET Earlier(i) == timesteps_in_sec[i] < time
    IN  SelectSeq([i \in 1..Len(timesteps_in_sec) |-> i], Earlier)

\* lines 167, 178: possible_ts[-1] forwards, possible_ts[0] in reverse
RequestedTsIndex(possible_ts, reverse_tracking) ==
    IF ~reverse_tracking THEN possible_ts[Len(possible_ts)]
    ELSE possible_ts[1]

\* the current time step replaced whenever another one is requested
ShouldUpdateEitherWay(current_ts_index, requested_ts_index, reverse_tracking) ==
    current_ts_index # requested_ts_index

\* lines 170, 181
ShouldUpdate(current_ts_index, requested_ts_index, reverse_tracking) ==
    IF ~reverse_tracking THEN current_ts_index < requested_ts_index
    ELSE current_ts_index > requested_ts_index

\* lines 163-186; `created` tells whether this call ran create_fields
check_if_update_fields(time) ==
    /\ wakefield.pc = "pic"
    /\ LET self == [wakefield EXCEPT !.time = <<time>>, !.created = FALSE]
           possible_ts == PossibleTs(self.timesteps_in_sec, time)
       IN  IF Len(possible_ts) > 1
           THEN LET requested_ts_index ==
                        RequestedTsIndex(possible_ts, self.reverse_tracking)
                    current_ts_index ==
                        TsIndex(self.timesteps, self.current_ts)
                IN  IF ShouldUpdate(current_ts_index, requested_ts_index,
                                    self.reverse_tracking)
                    THEN wakefield' = create_fields(
                             [self EXCEPT !.current_ts =
                                 self.timesteps[requested_ts_index]])
                    ELSE wakefield' = self
           ELSE wakefield' = self
    /\ UNCHANGED <<solver, stage>>

NextPIC == \E time \in PICTimes : check_if_update_fields(time)

SpecPIC == InitPIC /\ [][NextPIC]_vars

\* ------------------------------------------------------------ the claims
\* the slices of the calls of operation op among the first k calls, in order
RECURSIVE SlicesOf(_, _, _)
SlicesOf(cs, op, k) ==
    IF k = 0 THEN <<>>
    ELSE IF cs[k][1] = op THEN Append(SlicesOf(cs, op, k - 1), cs[k][2])
    ELSE SlicesOf(cs, op, k - 1)

\* the loop of calculate_plasma_response is over
SweepEnded ==
    pc \in {"derived", "done"} \/ (pc = "raised" /\ error = "ValueError: gradient")

\* C1: the slices are processed in the order n_xi-1, n_xi-2, ..., 0, each
\* once, the sweep ends after exactly n_xi turns of the loop, every call
\* between two sorts is of the slice of the first one, and the particles at
\* the start of slice i < n_xi-1 are those evolve left at slice i+1.
C1_SliceOrder ==
    LET sorted == SlicesOf(calls, "sort", Len(calls))
    IN  /\ Len(sorted) <= n_xi
        /\ \A k \in 1..Len(sorted) : sorted[k] = n_xi - k
        /\ \A k \in 2..Len(calls) :
              calls[k][1] = "sort" \/ calls[k][2] = calls[k - 1][2]
        /\ SweepEnded => (Len(sorted) = n_xi /\ step = n_xi)
        /\ (pc = "sort" /\ Len(sorted) > 0) =>
              /\ evolved.slice = n_xi - Len(sorted)
              /\ pp.particles = evolved.particles

C1_Witness ==
    /\ pc = "done"
    /\ n_xi = 3
    /\ \E k \in 1..Len(pp.particles) : pp.particles[k].r # 2 * pp.particles[k].id - 1

\* the calls of one slice, and the state the particle system is in after each
ProtocolCalls ==
    <<"sort", "determine_neighboring_points", "gather_sources",
      "calculate_fields", "calculate_psi_at_grid",
      "calculate_b_theta_at_grid", "deposit_rho", "deposit_chi", "evolve">>

ProtocolState(op) ==
    CASE op = "initialize" -> "Initialized"
      [] op = "sort" -> "Sorted"
      [] op = "determine_neighboring_points" -> "Paired"
      [] op = "gather_sources" -> "Sourced"
      [] op \in {"calculate_fields", "calculate_psi_at_grid",
                 "calculate_b_theta_at_grid"} -> "FieldsComputed"
      [] op \in {"deposit_rho", "deposit_chi"} -> "Deposited"
      [] op = "evolve" -> "Evolved"

\* C2: initialize is called once, before the first slice, and the calls of
\* every slice are sort, determine_neighboring_points, gather_sources,
\* calculate_fields, calculate_psi_at_grid, calculate_b_theta_at_grid,
\* deposit_rho, deposit_chi, evolve, none skipped or reordered (a slice may
\* only end without evolve when no call follows); the particle system is in
\* the protocol state of its last call.
C2_Protocol ==
    /\ (calls = <<>>) <=> (pp.state = "Uninitialized")
    /\ calls # <<>> =>
          /\ calls[1] = <<"initialize", -1>>
          /\ pp.state = ProtocolState(calls[Len(calls)][1])
    /\ pc \in {"sort", "determine_neighboring_points", "gather_sources",
               "calculate_fields", "grid", "deposit", "evolve", "derived",
               "done"} => calls # <<>>
    /\ \A k \in 2..Len(calls) :
          /\ calls[k][1] # "initialize"
          /\ IF calls[k][1] = "sort"
             THEN calls[k - 1][1] \in {"initialize", "evolve"}
             ELSE \E m \in 2..Len(ProtocolCalls) :
                     /\ calls[k][1] = ProtocolCalls[m]
                     /\ calls[k - 1][1] = ProtocolCalls[m - 1]
                     /\ calls[k][2] = calls[k - 1][2]
    /\ SweepEnded => calls[Len(calls)][1] = "deposit_chi"

C2_Witness ==
    /\ pc = "done"
    /\ Len(SlicesOf(calls, "gather_sources", Len(calls))) = 3
    /\ pp.state = "Deposited"

\* C3: evolve is called at the end of every slice but slice 0: n_xi - 1 times
\* in a sweep, never at slice 0, and after the sweep the particles are as
\* the deposits of slice 0 left them.
C3_EvolveCount ==
    LET ev == SlicesOf(calls, "evolve", Len(calls))
    IN  /\ \A k \in 1..Len(ev) : ev[k] = n_xi - k /\ ev[k] > 0
        /\ Len(ev) <= n_xi - 1
        /\ SweepEnded =>
              /\ Len(ev) = n_xi - 1
              /\ calls[Len(calls)] = <<"deposit_chi", 0>>
              /\ pp.state = "Deposited"
              /\ evolved.slice = (IF n_xi = 1 THEN -1 ELSE 1)
              /\ n_xi > 1 =>
                    \A k \in 1..Len(pp.particles) :
                    \E m \in 1..Len(evolved.particles) :
                       /\ evolved.particles[m].id = pp.particles[k].id
                       /\ evolved.particles[m].r = pp.particles[k].r
                       /\ ~pp.particles[k].at_rest =>
                             evolved.particles[m].pr = pp.particles[k].pr

C3_Witness ==
    /\ SweepEnded
    /\ Len(SlicesOf(calls, "evolve", Len(calls))) = 2
    /\ \E k \in 1..Len(pp.particles) : pp.particles[k].pr # 0

\* the particle of a list that has the given id
ById(parts, id) == parts[CHOOSE k \in 1..Len(parts) : parts[k].id = id]

SliceStatements ==
    {"sort", "determine_neighboring_points", "gather_sources",
     "calculate_fields", "grid", "deposit", "evolve"}

\* C4: a particle is put at rest (gamma = 1, p_r = p_z = 0, marked) in the
\* step that finds its Lorentz factor above max_gamma and in no other, it is
\* at rest with gamma = 1 and zero momentum in every later state of the
\* sweep, and no statement of the sweep raises an error.
C4_Freeze ==
    [][ /\ pp'.state # "Uninitialized" =>
             \A id \in 1..Len(pp'.particles) :
                LET q == ById(pp'.particles, id)
                IN  /\ q.at_rest => (q.gamma = 1 /\ q.pr = 0 /\ q.pz = 0)
                    /\ pp.state # "Uninitialized" =>
                          LET p == ById(pp.particles, id)
                          IN  /\ p.at_rest => q.at_rest
                              /\ (q.at_rest /\ ~p.at_rest) =>
                                    (pc = "calculate_fields"
                                        /\ Gamma(p) > max_gamma)
                              /\ (pc = "calculate_fields" /\ ~p.at_rest
                                     /\ Gamma(p) > max_gamma) => q.at_rest
        /\ pc \in SliceStatements => (pc' # "raised" /\ error' = "none")
      ]_vars

C4_Witness ==
    /\ pc = "done"
    /\ \E k \in 1..Len(evolved.particles) : evolved.particles[k].at_rest
    /\ \E k \in 1..Len(pp.particles) :
          ~pp.particles[k].at_rest /\ pp.particles[k].gamma > 1

\* C5: from initialize on the particle system holds ppc * n_r particles, the
\* same ones in every state of the sweep; no statement of the sweep changes
\* their number and sort only reorders them.
C5_ParticleCount ==
    [][ /\ pp'.state # "Uninitialized" =>
             /\ Len(pp'.particles) = ppc * n_r
             /\ {pp'.particles[k].id : k \in 1..Len(pp'.particles)}
                    = 1..(ppc * n_r)
        /\ pp.state # "Uninitialized" =>
             Len(pp'.particles) = Len(pp.particles)
        /\ pc = "sort" =>
             \A k \in 1..Len(pp.particles) :
                \E m \in 1..Len(pp'.particles) :
                   pp'.particles[m] = pp.particles[k]
      ]_vars

C5_Witness ==
    /\ pp.state = "Sorted"
    /\ Len(pp.particles) >= 2
    /\ \E k \in 1..Len(pp.particles) : pp.particles[k].id # k

\* the arguments name an invalid configuration
BadConfiguration == ~ShapeSupported(p_shape) \/ n_p <= 0 \/ r_max <= 0

\* an array of the caller is as it was handed in (cell [0][0] of E_z is a
\* guard cell, which no statement writes: it holds the value of the fill)
Untouched(grid) == \A i \in Rows(n_xi), j \in Cols(n_r) : grid[i][j] = E_z[0][0]

\* C6 (as claimed): with an unsupported shape, a density that is not positive
\* or a box of no radius, no slice is processed and no output grid is written.
C6_ConfigErrorBeforeSweep ==
    BadConfiguration =>
        /\ SlicesOf(calls, "sort", Len(calls)) = <<>>
        /\ Untouched(rho) /\ Untouched(chi) /\ Untouched(E_r)
        /\ Untouched(E_z) /\ Untouched(B_t)

AllZero(grid) == \A i \in DOMAIN grid : \A j \in DOMAIN grid[i] : grid[i][j] = 0

\* no laser, and no bunch or bunches of no charge
NoSource ==
    /\ AllZero(laser_a2)
    /\ \A k \in 1..Len(bunches) : bunches[k].q = 0

RECURSIVE SoloSum(_, _, _, _)
\* what the first k bunches of a list add to cell [i][j] of a zero grid, each
\* taken alone
SoloSum(bs, k, i, j) ==
    IF k = 0 THEN 0
    ELSE SoloSum(bs, k - 1, i, j)
         + calculate_beam_source(bs[k], n_r, n_xi, dr, p_shape,
                                 Zeros(n_xi, n_r))[i][j]

RECURSIVE FoldBackwards(_, _, _)
\* the grid after the first k bunches of a list, the last one first
FoldBackwards(bs, k, b_t) ==
    IF k = 0 THEN b_t
    ELSE calculate_beam_source(bs[1], n_r, n_xi, dr, p_shape,
             FoldBackwards(SubSeq(bs, 2, k), k - 1, b_t))

\* C8: after calculate_beam_source has run for the first bunches of the
\* list, b_t[2:-2, 2:-2] is its previous contents plus what each of these
\* bunches adds alone, the same grid the bunches give in the reverse order,
\* and the guard cells of b_t are as they were.
C8_BeamSourceAdditive ==
    (pc \in {"beam", "returned"}) =>
        /\ \A i \in Rows(n_xi), j \in Cols(n_r) :
              IF i \in InnerRows(n_xi) /\ j \in InnerCols(n_r)
              THEN b_t_beam[i][j]
                     = b_t_0[i][j] + SoloSum(bunches, bi - 1, i, j)
              ELSE b_t_beam[i][j] = b_t_0[i][j]
        /\ b_t_beam = FoldBackwards(bunches, bi - 1, b_t_0)

C8_Witness ==
    /\ pc = "returned"
    /\ Len(bunches) = 2
    /\ bunches[1] # bunches[2]
    /\ bunches[1].xi = bunches[2].xi
    /\ b_t_0[2][2] # 0
    /\ SoloSum(bunches, 1, 2, 2) # 0
    /\ SoloSum(bunches, 2, 2, 2) # SoloSum(bunches, 1, 2, 2)
    /\ n_r = 3

\* four times the charge enclosed by the centre of cell j of row i: the
\* cells inside it, half of cell j, less a quarter of the first cell at j = 0
Enclosed4(q_dist, i, j) ==
    4 * SumTo(q_dist[i], j - 1) + 2 * q_dist[i][j]
        - (IF j = 0 THEN q_dist[i][0] ELSE 0)

\* C9: what a call of calculate_beam_source adds to cell j of row i is the
\* enclosed charge times dr over the radius (j + 1/2) dr of the cell centre,
\* the enclosed charge being the charge of the cells up to j less half the
\* charge of cell j and, at j = 0, less a further quarter of it.
C9_EnclosedCharge ==
    [][ (pc = "beam" /\ bi' = bi + 1) =>
           LET q_dist == QDist(bunches[bi], n_xi, n_r, p_shape)
           IN  \A i \in 0..(n_xi - 1), j \in 0..(n_r - 1) :
                  (b_t_beam'[i + 2][j + 2] - b_t_beam[i + 2][j + 2])
                        * 2 * (2 * j + 1) * dr
                     = Enclosed4(q_dist, i, j) * dr * FieldScale(n_r)
      ]_vars

C9_Witness ==
    /\ bi = 2
    /\ n_r = 3
    /\ bunches[1].r = 0
    /\ p_shape = "cubic"
    /\ b_t_beam[2][2] # b_t_0[2][2]
    /\ b_t_beam[2][3] # b_t_0[2][3]
    /\ b_t_beam[2][4] # b_t_beam[2][3] 

\* C10 (as claimed): every radius calculate_beam_source divides by is the
\* centre (j + 1/2) dr of a cell j of 0..n_r-1, the first one dr / 2, and is
\* not zero.
C10_NoZeroDivisor ==
    /\ divisors \subseteq {(2 * j + 1) * dr : j \in 0..(n_r - 1)}
    /\ divisors # {} => dr \in divisors
    /\ 0 \notin divisors

\* an array of n_xi + 4 rows of n_r + 4 cells
GridShaped(g, nxi, nr) ==
    /\ DOMAIN g = Rows(nxi)
    /\ \A i \in Rows(nxi) : DOMAIN g[i] = Cols(nr)

\* C11: from their allocation on a2, nabla_a2, psi, W_r, b_t_bar and b_t_beam,
\* the charge grid q_dist of every bunch and the grids rho and chi the
\* particles deposit on have n_xi + 4 rows of n_r + 4 cells, their part
\* [2:-2, 2:-2] has n_xi rows of n_r cells, and the slice a statement of the
\* sweep works on is one of 0..n_xi-1, its row slice + 2 one of the rows
\* 2..n_xi+1.
C11_GridShapes ==
    pc # "start" =>
        /\ \A g \in {a2, nabla_a2, psi, W_r, b_t_bar, b_t_beam, rho, chi} :
              /\ GridShaped(g, n_xi, n_r)
              /\ DOMAIN Interior(g, n_xi, n_r) = 0..(n_xi - 1)
              /\ \A i \in 0..(n_xi - 1) :
                    DOMAIN Interior(g, n_xi, n_r)[i] = 0..(n_r - 1)
        /\ \A k \in 1..Len(bunches) :
              GridShaped(deposit_3d_distribution(bunches[k],
                             Weight(bunches[k], n_xi), n_xi, n_r, p_shape,
                             Zeros(n_xi, n_r)), n_xi, n_r)
        /\ pc \in SliceStatements =>
              /\ SliceI(n_xi, step) \in 0..(n_xi - 1)
              /\ SliceI(n_xi, step) + 2 \in InnerRows(n_xi)
              /\ InnerRows(n_xi) \subseteq Rows(n_xi)
              /\ Rows(n_xi) \ InnerRows(n_xi) = {0, 1, n_xi + 2, n_xi + 3}

C11_Witness ==
    /\ pc = "deposit"
    /\ SliceI(n_xi, step) = 0
    /\ n_xi >= 3
    /\ n_r >= 3
    /\ bunches # <<>>

\* a density the construction is to refuse: neither a float nor a callable,
\* a callable of a number of parameters other than 1 or 2, a negative float
InvalidDensity(density) ==
    \/ density.type \notin {"float", "callable"}
    \/ density.type = "callable" /\ density.n_inputs \notin {1, 2}
    \/ density.type = "float" /\ density.value < 0

\* C12 (as claimed): once line 108 has run, the construction has failed with
\* an error, no wakefield model built, exactly if the density is invalid, and
\* a valid density is turned into a profile.
C12_InvalidDensityRejected ==
    stage.pc \notin {"none", "density"} =>
        IF InvalidDensity(stage.density_arg)
        THEN /\ stage.pc = "raised"
             /\ stage.density = None
             /\ stage.models_built = 0
        ELSE stage.density # None

\* C15 (as claimed): once line 109 has run, None has given no wakefield, a
\* Field instance is used as given, each documented name has built the model
\* it names, and the error 'not recognized' is raised only for a string that
\* is not a documented name.
C15_DocumentedModelsAccepted ==
    (stage.pc \in {"fields", "constructed"}
     \/ (stage.pc = "raised" /\ stage.density # None)) =>
        LET model == stage.model_arg
        IN  /\ model.kind = "None" =>
                  (stage.pc # "raised" /\ stage.wakefield = None)
            /\ model.kind = "Field" =>
                  (stage.pc # "raised" /\ stage.wakefield = <<"given Field">>)
            /\ (model.kind = "str" /\ model.name \in DOMAIN DocumentedModels)
                  => /\ stage.pc # "raised"
                     /\ stage.wakefield = <<DocumentedModels[model.name]>>
            /\ stage.pc = "raised" =>
                  /\ stage.error = "ValueError: Wakefield model not recognized"
                  /\ model.kind = "str"
                  /\ model.name \notin DOMAIN DocumentedModels

\* the calls of deposit_chi, the last statement every slice runs
SlicesDone == SlicesOf(calls, "deposit_chi", Len(calls))

\* C13: E_r, E_z and B_theta are written by one step only, the one that
\* follows the n_xi-th slice of the sweep, and by that step
\* B_theta = (b_t_bar + b_t_beam) E_0 / c and E_r = W_r + c B_theta in every
\* cell of the grid, W_r = -E_0 d(psi)/dr and E_z = -E_0 d(psi)/dxi in the
\* cells of [2:-2, 2:-2], W_r is zero and E_z as it was in the other cells.
C13_FieldCombination ==
    [][ LET E_0 == plasma_cold_non_relativisct_wave_breaking_field(n_p)
            psi_in == Interior(psi, n_xi, n_r)
        IN  /\ <<E_r, E_z, B_t>>' # <<E_r, E_z, B_t>> =>
                   (pc = "derived" /\ pc' = "done")
            /\ (pc = "derived" /\ pc' = "done") =>
              /\ Len(SlicesDone) = n_xi
              /\ \A i \in Rows(n_xi), j \in Cols(n_r) :
                   /\ B_t'[i][j] * SpeedOfLight
                          = (b_t_bar[i][j] + b_t_beam[i][j]) * E_0
                   /\ E_r'[i][j] = W_r'[i][j] * FieldScale(n_r)
                          + SpeedOfLight * B_t'[i][j] * 2 * dr
                   /\ IF i \in InnerRows(n_xi) /\ j \in InnerCols(n_r)
                      THEN /\ W_r'[i][j]
                                = -E_0 * DrPsi2(psi_in, i - 2, j - 2, n_r)
                           /\ E_z'[i][j]
                                = -E_0 * DxiPsi2(psi_in, i - 2, j - 2, n_xi)
                      ELSE /\ W_r'[i][j] = 0
                           /\ E_z'[i][j] = E_z[i][j]
      ]_vars

\* a solve with a bunch has returned: psi has a slope along both axes and
\* the beam and the plasma both contribute to B_theta
C13_Witness ==
    /\ pc = "done"
    /\ \E i \in InnerRows(n_xi), j \in InnerCols(n_r) :
          b_t_beam[i][j] # 0 /\ B_t[i][j] # 0
    /\ \E i \in InnerRows(n_xi), j \in InnerCols(n_r) :
          b_t_bar[i][j] # 0 /\ B_t[i][j] # 0
    /\ \E i \in InnerRows(n_xi), j \in InnerCols(n_r) :
          W_r[i][j] # 0 /\ E_z[i][j] # 0
    /\ E_z[0][0] # 0

\* the cells of the two guard rows and two guard columns on each side
GuardCells(nxi, nr) ==
    {c \in Rows(nxi) \X Cols(nr) :
        c[1] \notin InnerRows(nxi) \/ c[2] \notin InnerCols(nr)}

\* grid is zero in every guard cell
ZeroInGuards(grid) ==
    \A c \in GuardCells(n_xi, n_r) : grid[c[1]][c[2]] = 0

\* C14 (as claimed): when the solve has returned E_z, E_r and B_theta are
\* zero in every guard cell.
C14_GuardsVanish ==
    pc = "done" => (ZeroInGuards(E_z) /\ ZeroInGuards(E_r) /\ ZeroInGuards(B_t))

\* C14 (amended): no step of the solve changes a guard cell of E_z, which
\* therefore holds at the return what the caller passed; b_t_bar, b_t_beam
\* and W_r are zero in every guard cell from their allocation on, and when
\* the solve has returned E_r and B_theta are zero in every guard cell.
C14_GuardsUnwritten ==
    [][ /\ \A c \in GuardCells(n_xi, n_r) :
              E_z'[c[1]][c[2]] = E_z[c[1]][c[2]]
        /\ pc' # "start" =>
              (ZeroInGuards(b_t_bar') /\ ZeroInGuards(b_t_beam')
               /\ ZeroInGuards(W_r'))
        /\ pc' = "done" => (ZeroInGuards(E_r') /\ ZeroInGuards(B_t'))
      ]_vars

\* a solve with a source has returned on arrays that held something else
\* than zero: E_r and B_theta are overwritten, the guard cells of E_z are not
C14_Witness ==
    /\ pc = "done"
    /\ \A c \in GuardCells(n_xi, n_r) : E_z[c[1]][c[2]] # 0
    /\ ZeroInGuards(E_r)
    /\ \E i \in InnerRows(n_xi), j \in InnerCols(n_r) :
          E_r[i][j] # 0 /\ E_z[i][j] # 0

\* C16: a call of calculate_wakefields that has ended has raised the same
\* exception or returned with the same E_z[2:-2, 2:-2], E_r and B_theta as
\* every earlier call with the same arguments, whatever call was made in
\* between and whatever the output arrays held; and every call starts its
\* sweep from all-zero psi and b_t_bar and particles at their initial places.
C16_NoStateAcrossCalls ==
    /\ pc \in {"done", "raised"} =>
          \A k \in 1..Len(results) :
              results[k].args = inputs => results[k] = Outcome
    /\ (pc = "sort" /\ step = 0) =>
          /\ AllZero(psi) /\ AllZero(b_t_bar) /\ AllZero(W_r)
          /\ pp.particles = InitialParticles(ppc, n_r)

\* the third call has returned what the first did, after a second call with
\* another source, on arrays the second call had written
C16_Witness ==
    /\ invocation = 3
    /\ pc = "done"
    /\ results[2].args # inputs
    /\ results[1].args = inputs
    /\ results[2].B_t # B_t
    /\ results[1].B_t = B_t
    /\ \E i \in InnerRows(n_xi), j \in InnerCols(n_r) : E_z[i][j] # 0
    /\ E_z[0][0] # 0

C18_ReturnedIsInterpolation ==
    (wakefield.pc = "constructed" /\ wakefield.last # None) =>
        LET req == wakefield.last[1]
        IN  req.returned = Interpolation(wakefield.grids, req.particles)

\* the cells in which two grids differ
Changed(old, new) ==
    {c \in Rows(n_xi) \X Cols(n_r) : old[c[1]][c[2]] # new[c[1]][c[2]]}

\* the values a grid row holds, and the zero gathered outside the box
RowValues(grid, row) == {grid[row][j] : j \in Cols(n_r)} \cup {0}

\* C19: a statement of the sweep working on slice i changes psi and b_t_bar
\* in row i+2, columns 2..n_r+1, only, and rho and chi in row i+2 only; it
\* changes none of a2, nabla_a2 and b_t_beam, and the sources the particles
\* hold after gather_sources are values of row i+2 of these grids.  The rows
\* of the slices above i, processed before, are not changed, and psi and
\* b_t_bar are zero in every guard cell at every point of the sweep.
C19_RowFrame ==
    [][ (pc \in SliceStatements) =>
        LET i == SliceI(n_xi, step)
            row == i + 2
        IN  /\ i \in 0..(n_xi - 1)
            /\ Changed(psi, psi') \subseteq {row} \X InnerCols(n_r)
            /\ Changed(b_t_bar, b_t_bar') \subseteq {row} \X InnerCols(n_r)
            /\ Changed(rho, rho') \subseteq {row} \X Cols(n_r)
            /\ Changed(chi, chi') \subseteq {row} \X Cols(n_r)
            /\ \A g \in {psi, b_t_bar, rho, chi} :
                   \A above \in (row + 1)..(n_xi + 3) : g'[above] = g[above]
            /\ (pc # "grid") => (psi' = psi /\ b_t_bar' = b_t_bar)
            /\ (pc # "deposit") => (rho' = rho /\ chi' = chi)
            /\ UNCHANGED <<a2, nabla_a2, b_t_beam>>
            /\ pc = "gather_sources" =>
                   \A k \in 1..Len(pp'.particles) :
                       /\ pp'.particles[k].a2 \in RowValues(a2, row)
                       /\ pp'.particles[k].nabla_a2
                              \in RowValues(nabla_a2, row)
                       /\ pp'.particles[k].b_t \in RowValues(b_t_beam, row)
            /\ ZeroInGuards(psi') /\ ZeroInGuards(b_t_bar')
      ]_vars

\* the last slice is being written below rows that hold the response of the
\* slices before it
C19_Witness ==
    /\ pc = "deposit"
    /\ SliceI(n_xi, step) = 0
    /\ n_xi >= 2
    /\ \E j \in InnerCols(n_r) : psi[2][j] # 0 /\ psi[3][j] # psi[2][j]
    /\ \E j \in InnerCols(n_r) : b_t_bar[3][j] # 0
    /\ \E j \in Cols(n_r) : rho[3][j] # rho[0][j]

\* C20: from line 91 on, and when the particle system is built, the plasma
\* radius is the normalised box radius r_max / s_d if r_max_plasma is None
\* and r_max_plasma / s_d otherwise, and each of r_max, r_max_plasma, xi_min,
\* xi_max, r_fld and xi_fld times the skin depth is the length handed in: it
\* was divided by the skin depth once.
C20_LengthsNormalisedOnce ==
    pc # "start" =>
        LET s_d == plasma_skin_depth(n_p)
        IN  /\ norm.r_max * s_d = r_max
            /\ norm.xi_min * s_d = xi_min
            /\ norm.xi_max * s_d = xi_max
            /\ norm.r_fld * s_d = r_fld
            /\ norm.xi_fld * s_d = xi_fld
            /\ IF r_max_plasma = None
               THEN norm.r_max_plasma = norm.r_max
               ELSE norm.r_max_plasma * s_d = r_max_plasma[1]
            /\ dr * n_r = norm.r_max
            /\ norm.dxi * (n_xi - 1) = norm.xi_max - norm.xi_min
            /\ pp.state # "Uninitialized" =>
                   /\ pp.r_max = norm.r_max
                   /\ pp.r_max_plasma = norm.r_max_plasma
                   /\ IF r_max_plasma = None
                      THEN pp.r_max_plasma * s_d = r_max
                      ELSE pp.r_max_plasma * s_d = r_max_plasma[1]

\* the particle system built for a plasma narrower than the box, of the
\* density whose skin depth is not the unit
C20_Witness ==
    /\ pp.state = "Initialized"
    /\ r_max_plasma # None
    /\ pp.r_max_plasma < pp.r_max
    /\ pp.r_max_plasma # r_max_plasma[1]
    /\ norm.xi_min < 0

RECURSIVE SumOfFields(_, _, _, _, _, _)
\* what the first n wakefields of a list give particle k, added up
SumOfFields(list, n, method, x, y, k) ==
    IF n = 0 THEN 0
    ELSE SumOfFields(list, n - 1, method, x, y, k)
         + PlasmaLensFieldRelativistic(list[n], method, x, y)[k]

\* a list with its elements j and j + 1 exchanged
Exchanged(list, j) ==
    [k \in 1..Len(list) |->
        IF k = j THEN list[j + 1] ELSE IF k = j + 1 THEN list[j] ELSE list[k]]

\* C21: what Wx, Wy, Wz or Kx of a CombinedWakefield returns has one value
\* per particle, the sum of what the same method of every wakefield of the
\* list gives that particle; the wakefields were queried once each, in the
\* order of the list, with the coordinates the caller passed; for the empty
\* list every value is zero; and the list with any two neighbours exchanged
\* (hence in any order) gives the same array.
C21_CombinedSum ==
    wakefield.pc = "returned" =>
        LET self == wakefield
            list == self.wakefield_list
        IN  /\ Len(self.returned) = Len(self.x)
            /\ \A k \in 1..Len(self.x) :
                  self.returned[k]
                      = SumOfFields(list, Len(list), self.method,
                                    self.x, self.y, k)
            /\ self.queries
                  = [n \in 1..Len(list) |->
                        [wf |-> n, method |-> self.method,
                         x |-> self.x, y |-> self.y]]
            /\ list = <<>> => \A k \in 1..Len(self.x) : self.returned[k] = 0
            /\ \A j \in 1..(Len(list) - 1) :
                  CombinedLoop([k \in 1..Len(self.x) |-> 0],
                               Exchanged(list, j), 1, self.method,
                               self.x, self.y) = self.returned

\* Wx of two different lenses returned for two particles
C21_Witness ==
    /\ wakefield.pc = "returned"
    /\ Len(wakefield.wakefield_list) = 2
    /\ wakefield.wakefield_list[1] # wakefield.wakefield_list[2]
    /\ wakefield.method = "Wx"
    /\ Len(wakefield.x) = 2
    /\ wakefield.x[1] # wakefield.x[2]
    /\ wakefield.returned[1] # 0
    /\ wakefield.returned[1] # wakefield.returned[2]

\* how many time steps of the list lie earlier than the time of the last call
EarlierTimesteps(self) ==
    Cardinality({i \in 1..Len(self.timesteps_in_sec) :
                    self.timesteps_in_sec[i] < self.time[1]})

\* C22: a call of check_if_update_fields moves current_ts one way only: its
\* index in the list of time steps does not decrease in forward tracking
\* and does not increase in reverse tracking; the call runs create_fields
\* exactly when it changes current_ts, and the fields loaded are then those
\* of the new current_ts; a call with a time that at most one time step
\* lies earlier than changes neither current_ts nor the fields nor the list.
C22_OneDirection ==
    [][ (wakefield.pc = "pic" /\ wakefield'.pc = "pic") =>
          LET old == wakefield
              new == wakefield'
              old_index == TsIndex(old.timesteps, old.current_ts)
              new_index == TsIndex(new.timesteps, new.current_ts)
          IN  /\ new.timesteps = old.timesteps
              /\ new.timesteps_in_sec = old.timesteps_in_sec
              /\ ~old.reverse_tracking => new_index >= old_index
              /\ old.reverse_tracking => new_index <= old_index
              /\ new.created <=> new.current_ts # old.current_ts
              /\ new.created => new.fields = new.current_ts
              /\ ~new.created => new.fields = old.fields
              /\ EarlierTimesteps(new) <= 1 =>
                    /\ new.current_ts = old.current_ts
                    /\ new.fields = old.fields
                    /\ ~new.created ]_vars

\* in reverse tracking a call has just moved current_ts back and loaded its
\* fields
C22_Witness ==
    /\ wakefield.pc = "pic"
    /\ wakefield.time # None
    /\ wakefield.reverse_tracking
    /\ wakefield.created
    /\ Len(wakefield.timesteps) = 3
    /\ TsIndex(wakefield.timesteps, wakefield.current_ts) = 2
    /\ wakefield.fields = wakefield.current_ts

====
